---- MODULE Spec2Model ----
(***************************************************************************)
(* Model of the mutation-cluster detection engine of JMcT                  *)
(* (src/jmct/nbinom.py, driven by src/main.py).                            *)
(*                                                                         *)
(* Probabilities are exact rationals [nan, num, den] in lowest terms; the  *)
(* negative-binomial CDF of scipy.stats is modelled by its defining sum,   *)
(* and by NaN outside the distribution's parameter domain.                 *)
(***************************************************************************)
EXTENDS Integers, Sequences, FiniteSets, TLC

VARIABLES
    pc,                              \* position of the caller
    df_mutations,                    \* the caller's sample frame (mutated in place by the Region cast)
    df_original,                     \* the sample frame as first handed over (never mutated)
    genome_size,                     \* argument of analyzeSampleForMutationClusters
    min_cluster_mutations,           \* argument of analyzeSampleForMutationClusters
    min_p_value,                     \* threshold argument
    max_distance_between_mutations,  \* proximity window argument
    per_site_probability,            \* rate argument
    mutation_list,                   \* sorted positions handed to the partitioner
    potential_clusters,              \* result of findPotentialClusteredMutations
    significant_clusters,            \* result of find_largest_significant_clusters
    df_found,                        \* table returned by findSampleClusters
    df_clusters,                     \* table returned by analyzeSampleForMutationClusters
    cluster_probabilities,           \* per run, the candidates returned by the scorer
    cache,                           \* functools.cache of findClusterProbability
    calls                            \* number of pipeline calls made so far

vars == << pc, df_mutations, df_original, genome_size, min_cluster_mutations,
           min_p_value, max_distance_between_mutations, per_site_probability,
           mutation_list, potential_clusters, significant_clusters,
           cluster_probabilities, df_found, df_clusters, cache, calls >>

----------------------------------------------------------------------------
(* Bounds of the model *)

\* largest position of a drawn mutation list
MaxPos == 5
\* largest number of positions of a drawn mutation list
MaxLen == 4
\* largest drawn proximity window
MaxDist == 2

----------------------------------------------------------------------------
(* Exact arithmetic *)

RECURSIVE GCD(_, _)
GCD(a, b) == IF b = 0 THEN a ELSE GCD(b, a % b)

\* the concatenation of a sequence of sequences
RECURSIVE Flatten(_)
Flatten(ss) == IF ss = << >> THEN << >> ELSE Head(ss) \o Flatten(Tail(ss))

RECURSIVE Pow(_, _)
Pow(b, e) == IF e <= 0 THEN 1 ELSE b * Pow(b, e - 1)

RECURSIVE Binom(_, _)
Binom(n, k) == IF k = 0 \/ k = n THEN 1 ELSE Binom(n - 1, k - 1) + Binom(n - 1, k)

NaN == [nan |-> TRUE, num |-> 0, den |-> 1]

\* the rational a/b (b > 0) in lowest terms
Ratio(a, b) ==
    LET g == GCD(a, b)
    IN  [nan |-> FALSE, num |-> a \div g, den |-> b \div g]

\* x < y on floats: any comparison with NaN is false
Less(x, y) == ~x.nan /\ ~y.nan /\ x.num * y.den < y.num * x.den

\* x <= y on floats, dividing out the common denominator first
Leq(x, y) ==
    /\ ~x.nan
    /\ ~y.nan
    /\ LET g == GCD(x.den, y.den)
       IN  x.num * (y.den \div g) <= y.num * (x.den \div g)

----------------------------------------------------------------------------
(* Probability model: src/jmct/nbinom.py findClusterProbability *)

RECURSIVE CdfNumerator(_, _, _, _, _)
\* sum over i = 0..k of C(i+n-1, i) * a^n * (b-a)^i * b^(k-i)
CdfNumerator(i, k, n, a, b) ==
    IF i > k THEN 0
    ELSE Binom(i + n - 1, i) * Pow(a, n) * Pow(b - a, i) * Pow(b, k - i)
         + CdfNumerator(i + 1, k, n, a, b)

PmfNumerator(k, n, a, b) ==
    Binom(k + n - 1, k) * Pow(a, n) * Pow(b - a, k)

\* mutant: the probability mass at cluster_length instead of the cumulative value
nbinom_pmf(cluster_length, number_of_mutations, p) ==
    IF p.nan \/ p.num <= 0 \/ p.num > p.den \/ number_of_mutations <= 0 THEN NaN
    ELSE IF cluster_length < 0 THEN Ratio(0, 1)
    ELSE Ratio(PmfNumerator(cluster_length, number_of_mutations, p.num, p.den),
               Pow(p.den, number_of_mutations + cluster_length))

\* scipy.stats.nbinom.cdf(k, n, p): P(at most k failures before the n-th success)
nbinom_cdf(cluster_length, number_of_mutations, p) ==
    IF p.nan \/ p.num <= 0 \/ p.num > p.den \/ number_of_mutations <= 0 THEN NaN
    ELSE IF cluster_length < 0 THEN Ratio(0, 1)
    ELSE Ratio(CdfNumerator(0, cluster_length, number_of_mutations, p.num, p.den),
               Pow(p.den, number_of_mutations + cluster_length))

\* mutant: a cache key that leaves out the number of mutations
CacheKeyNoCount(cluster_length, number_of_mutations, per_bp_mut_probability) ==
    << cluster_length, 0, per_bp_mut_probability >>

\* the key functools.cache builds from the call's arguments
CacheKey(cluster_length, number_of_mutations, per_bp_mut_probability) ==
    << cluster_length, number_of_mutations, per_bp_mut_probability >>

\* the value a call returns when the cache holds c
findClusterProbability(c, cluster_length, number_of_mutations, per_bp_mut_probability) ==
    LET key == CacheKey(cluster_length, number_of_mutations, per_bp_mut_probability)
    IN  IF key \in DOMAIN c THEN c[key]
        ELSE nbinom_cdf(cluster_length, number_of_mutations, per_bp_mut_probability)

----------------------------------------------------------------------------
(* Proximity partitioner: src/jmct/nbinom.py findPotentialClusteredMutations *)

RECURSIVE PartitionLoop(_, _, _, _, _)
PartitionLoop(ml, d, i, current_sublist, clusters) ==
    IF i > Len(ml)
    THEN IF Len(current_sublist) >= 2 THEN Append(clusters, current_sublist) ELSE clusters
    ELSE IF ml[i] - ml[i - 1] <= d
         THEN PartitionLoop(ml, d, i + 1, Append(current_sublist, ml[i]), clusters)
         ELSE PartitionLoop(ml, d, i + 1, << ml[i] >>,
                  IF Len(current_sublist) >= 2
                  THEN Append(clusters, current_sublist) ELSE clusters)

\* mutant: a gap equal to the window starts a new sublist (< instead of <=)
findPotentialStrictGap(ml, d) == PartitionLoop(ml, d - 1, 2, << ml[1] >>, << >>)

\* mutant: the last sublist is never flushed
findPotentialNoFlush(ml, d) ==
    LET r == PartitionLoop(ml, d, 2, << ml[1] >>, << >>)
    IN  IF Len(ml) >= 2 /\ ml[Len(ml)] - ml[Len(ml) - 1] <= d
        THEN SubSeq(r, 1, Len(r) - 1) ELSE r

\* mutant: sublists of one element are kept
RECURSIVE PartitionLoopKeepAll(_, _, _, _, _)
PartitionLoopKeepAll(ml, d, i, current_sublist, clusters) ==
    IF i > Len(ml)
    THEN Append(clusters, current_sublist)
    ELSE IF ml[i] - ml[i - 1] <= d
         THEN PartitionLoopKeepAll(ml, d, i + 1, Append(current_sublist, ml[i]), clusters)
         ELSE PartitionLoopKeepAll(ml, d, i + 1, << ml[i] >>, Append(clusters, current_sublist))

findPotentialKeepSingletons(ml, d) == PartitionLoopKeepAll(ml, d, 2, << ml[1] >>, << >>)

findPotentialClusteredMutations(ml, d) == PartitionLoop(ml, d, 2, << ml[1] >>, << >>)

----------------------------------------------------------------------------
(* Pairwise scorer: src/jmct/nbinom.py computeClusterSignificanceOfAllMutationPairs *)

RECURSIVE PairsFrom(_, _)
\* the pairs (l[i], l[j]) for j in i+1..len, then those of i+1, ...
PairsFrom(l, i) ==
    IF i > Len(l) THEN << >>
    ELSE [t \in 1..(Len(l) - i) |-> << l[i], l[i + t] >>] \o PairsFrom(l, i + 1)

\* mutant: only pairs of distinct positions are enumerated
possible_pairs_distinct(l) ==
    SelectSeq(PairsFrom(l, 1), LAMBDA pair : pair[1] # pair[2])

possible_pairs(l) == PairsFrom(l, 1)

\* mutant: the start position itself is not counted (x > pair[0])
number_of_mutations_open(l, pair) ==
    Cardinality({x \in DOMAIN l : l[x] > pair[1] /\ l[x] <= pair[2]})

\* len([x for x in l if x >= pair[0] and x <= pair[1]])
number_of_mutations(l, pair) ==
    Cardinality({x \in DOMAIN l : l[x] >= pair[1] /\ l[x] <= pair[2]})

computeClusterSignificanceOfAllMutationPairs(c, l, p) ==
    LET pairs == possible_pairs(l)
    IN  [t \in DOMAIN pairs |->
            LET pair == pairs[t]
                n == number_of_mutations(l, pair)
            IN  << pair[1], pair[2], n,
                   findClusterProbability(c, pair[2] - pair[1], n, p) >>]

\* the argument triples the scorer hands to findClusterProbability for the runs
ProbabilityCalls(runs, p) ==
    UNION { LET pairs == possible_pairs(runs[r])
            IN  { << pairs[t][2] - pairs[t][1], number_of_mutations(runs[r], pairs[t]), p >> :
                    t \in DOMAIN pairs } :
            r \in DOMAIN runs }

\* the cache after the calls: entries present are kept, missing ones computed and stored.
\* An entry stored during a call holds the value its key computes to, so a lookup
\* later in the same call returns what findClusterProbability(c, ...) returns for the
\* cache c the call started with.
CacheAfter(c, args) ==
    LET keys == { CacheKey(a[1], a[2], a[3]) : a \in args }
    IN  [key \in (DOMAIN c) \cup keys |->
            IF key \in DOMAIN c THEN c[key]
            ELSE LET a == CHOOSE a \in args : CacheKey(a[1], a[2], a[3]) = key
                 IN  nbinom_cdf(a[1], a[2], a[3])]

----------------------------------------------------------------------------
(* Selector: src/jmct/nbinom.py find_largest_significant_clusters *)

None == << >>

RECURSIVE LongestLoopLastWins(_, _, _, _)
\* mutant: >= in place of >, so a later candidate of equal length replaces an earlier one
LongestLoopLastWins(cp, i, longest_cluster, min_p) ==
    IF i > Len(cp) THEN longest_cluster
    ELSE LET cluster == cp[i]
         IN  IF Less(cluster[4], min_p)
             THEN IF longest_cluster = None
                  THEN LongestLoopLastWins(cp, i + 1, cluster, min_p)
                  ELSE IF cluster[2] - cluster[1] >= longest_cluster[2] - longest_cluster[1]
                       THEN LongestLoopLastWins(cp, i + 1, cluster, min_p)
                       ELSE LongestLoopLastWins(cp, i + 1, longest_cluster, min_p)
             ELSE LongestLoopLastWins(cp, i + 1, longest_cluster, min_p)

RECURSIVE LongestLoopNonStrict(_, _, _, _)
\* mutant: the threshold test is <= instead of <
LongestLoopNonStrict(cp, i, longest_cluster, min_p) ==
    IF i > Len(cp) THEN longest_cluster
    ELSE LET cluster == cp[i]
         IN  IF Leq(cluster[4], min_p)
             THEN IF longest_cluster = None
                  THEN LongestLoopNonStrict(cp, i + 1, cluster, min_p)
                  ELSE IF cluster[2] - cluster[1] > longest_cluster[2] - longest_cluster[1]
                       THEN LongestLoopNonStrict(cp, i + 1, cluster, min_p)
                       ELSE LongestLoopNonStrict(cp, i + 1, longest_cluster, min_p)
             ELSE LongestLoopNonStrict(cp, i + 1, longest_cluster, min_p)

RECURSIVE LongestLoopShortest(_, _, _, _)
\* mutant: the shortest candidate below the threshold is kept (< instead of >)
LongestLoopShortest(cp, i, longest_cluster, min_p) ==
    IF i > Len(cp) THEN longest_cluster
    ELSE LET cluster == cp[i]
         IN  IF Less(cluster[4], min_p)
             THEN IF longest_cluster = None
                  THEN LongestLoopShortest(cp, i + 1, cluster, min_p)
                  ELSE IF cluster[2] - cluster[1] < longest_cluster[2] - longest_cluster[1]
                       THEN LongestLoopShortest(cp, i + 1, cluster, min_p)
                       ELSE LongestLoopShortest(cp, i + 1, longest_cluster, min_p)
             ELSE LongestLoopShortest(cp, i + 1, longest_cluster, min_p)

RECURSIVE LongestLoop(_, _, _, _)
\* the scan of lines 145-151, from candidate i on
LongestLoop(cp, i, longest_cluster, min_p) ==
    IF i > Len(cp) THEN longest_cluster
    ELSE LET cluster == cp[i]
         IN  IF Less(cluster[4], min_p)
             THEN IF longest_cluster = None
                  THEN LongestLoop(cp, i + 1, cluster, min_p)
                  ELSE IF cluster[2] - cluster[1] > longest_cluster[2] - longest_cluster[1]
                       THEN LongestLoop(cp, i + 1, cluster, min_p)
                       ELSE LongestLoop(cp, i + 1, longest_cluster, min_p)
             ELSE LongestLoop(cp, i + 1, longest_cluster, min_p)

RECURSIVE SelectLoop(_, _, _, _, _)
\* the loop over the runs, from run r on
SelectLoop(c, runs, r, p, min_p) ==
    IF r > Len(runs) THEN << >>
    ELSE LET cp == computeClusterSignificanceOfAllMutationPairs(c, runs[r], p)
             longest_cluster == LongestLoop(cp, 1, None, min_p)
         IN  (IF longest_cluster # None THEN << longest_cluster >> ELSE << >>)
             \o SelectLoop(c, runs, r + 1, p, min_p)

\* mutant: every candidate below the threshold is emitted, not the longest only
find_all_significant_clusters(c, runs, p, min_p) ==
    Flatten([r \in DOMAIN runs |->
                SelectSeq(computeClusterSignificanceOfAllMutationPairs(c, runs[r], p),
                          LAMBDA cluster : Less(cluster[4], min_p))])

find_largest_significant_clusters(c, runs, p, min_p) == SelectLoop(c, runs, 1, p, min_p)

----------------------------------------------------------------------------
(* Driver: src/jmct/nbinom.py findSampleClusters, analyzeSampleForMutationClusters *)

\* the chromosome identifier findSampleClusters skips
Mitochondrial == "ref|NC_001224|"

\* Region values are held in halves, so that a float column can hold x.5;
\* astype(int) truncates towards zero
astype_int(region) == 2 * (region \div 2)

\* list.sort(): insertion of x into an ascending list
RECURSIVE Insert(_, _)
Insert(x, l) ==
    IF l = << >> THEN << x >>
    ELSE IF x <= Head(l) THEN << x >> \o l
    ELSE << Head(l) >> \o Insert(x, Tail(l))

RECURSIVE Sort(_)
Sort(l) == IF l = << >> THEN << >> ELSE Insert(Head(l), Sort(Tail(l)))

RECURSIVE Unique(_, _)
\* Series.unique(): the distinct values in order of first appearance
Unique(col, seen) ==
    IF col = << >> THEN << >>
    ELSE IF Head(col) \in seen THEN Unique(Tail(col), seen)
    ELSE << Head(col) >> \o Unique(Tail(col), seen \cup { Head(col) })

\* mutant: the distinct values from the last record backwards
sample_chromosomes_backwards(df) ==
    Unique([i \in DOMAIN df |-> df[Len(df) + 1 - i].Chromosome], {})

sample_chromosomes(df) == Unique([i \in DOMAIN df |-> df[i].Chromosome], {})

\* df_sample['Region'] = df_sample['Region'].astype(int)
CastRegion(df) ==
    [i \in DOMAIN df |-> [Chromosome |-> df[i].Chromosome, Region |-> astype_int(df[i].Region)]]

\* mutant: the positions of every chromosome are taken
AllMutationList(df, chrom) == Sort([i \in DOMAIN df |-> df[i].Region \div 2])

\* df_sample[df_sample['Chromosome'] == chrom]['Region'].tolist(), then .sort()
ChromosomeMutationList(df, chrom) ==
    LET rows == SelectSeq(df, LAMBDA rec : rec.Chromosome = chrom)
    IN  Sort([i \in DOMAIN rows |-> rows[i].Region \div 2])

\* the runs findSampleClusters gets for one chromosome of the (cast) frame
ChromosomeRuns(df, chrom, d) ==
    findPotentialClusteredMutations(ChromosomeMutationList(CastRegion(df), chrom), d)

\* the rows lines 240-264 build from one chromosome's clusters (index assigned on concat)
\* mutant: Length counts both ends, and the rate and threshold columns are exchanged
ClusterRowsInclusive(chrom, clusters, p, min_p) ==
    [s \in DOMAIN clusters |->
        [index |-> 0,
         Chromosome |-> chrom,
         Start |-> clusters[s][1],
         End |-> clusters[s][2],
         Length |-> clusters[s][2] - clusters[s][1] + 1,
         Mutations |-> clusters[s][3],
         P_value |-> clusters[s][4],
         Per_site_mutation_probability |-> min_p,
         Cluster_P_value_Threshold |-> p]]

ClusterRows(chrom, clusters, p, min_p) ==
    [s \in DOMAIN clusters |->
        [index |-> 0,
         Chromosome |-> chrom,
         Start |-> clusters[s][1],
         End |-> clusters[s][2],
         Length |-> clusters[s][2] - clusters[s][1],
         Mutations |-> clusters[s][3],
         P_value |-> clusters[s][4],
         Per_site_mutation_probability |-> p,
         Cluster_P_value_Threshold |-> min_p]]

RECURSIVE ChromosomeLoop(_, _, _, _, _, _, _)
\* the loop of lines 212-264 from chromosome number n on; rows in order of appending
ChromosomeLoop(c, df, chroms, n, p, min_p, d) ==
    IF n > Len(chroms) THEN << >>
    ELSE IF chroms[n] = Mitochondrial THEN ChromosomeLoop(c, df, chroms, n + 1, p, min_p, d)
    ELSE LET runs == ChromosomeRuns(df, chroms[n], d)
             clusters == find_largest_significant_clusters(c, runs, p, min_p)
         IN  ClusterRows(chroms[n], clusters, p, min_p)
                 \o ChromosomeLoop(c, df, chroms, n + 1, p, min_p, d)

\* pd.concat(..., ignore_index=True): row labels 0..n-1
IgnoreIndex(rows) == [i \in DOMAIN rows |-> [rows[i] EXCEPT !.index = i - 1]]

\* the table findSampleClusters returns
findSampleClusters(c, df, p, min_p, d) ==
    IgnoreIndex(ChromosomeLoop(c, df, sample_chromosomes(df), 1, p, min_p, d))

\* the chromosomes whose pipeline runs
Processed(df) ==
    { chrom \in { df[i].Chromosome : i \in DOMAIN df } : chrom # Mitochondrial }

\* the caller's frame after findSampleClusters: cast once a chromosome is processed
FrameAfter(df) == IF Processed(df) = {} THEN df ELSE CastRegion(df)

\* the argument triples handed to findClusterProbability during findSampleClusters
SampleProbabilityCalls(df, p, d) ==
    UNION { ProbabilityCalls(ChromosomeRuns(df, chrom, d), p) : chrom \in Processed(df) }

\* mutant: the index is left as the filter leaves it
reset_index_missing(table) == table

\* reset_index(drop=True): labels renumbered 0..n-1
reset_index(table) == [i \in DOMAIN table |-> [table[i] EXCEPT !.index = i - 1]]

\* mutant: rows with more than the minimum are kept (> instead of >=)
FilterMutationsStrict(table, min_mutations) ==
    SelectSeq(table, LAMBDA row : row.Mutations > min_mutations)

\* df_clusters[df_clusters['Mutations'] >= min_cluster_mutations]: labels are kept
FilterMutations(table, min_mutations) ==
    SelectSeq(table, LAMBDA row : row.Mutations >= min_mutations)

\* total_outcome_mutations / genome_size
PerSiteProbability(df, size) == Ratio(Len(df), size)

----------------------------------------------------------------------------
(* Inputs *)

\* the default of max_distance_between_mutations
DefaultMaxDistance == 10000

\* Scenario A of the specification
ScenarioA == << 100, 200, 9000, 9500, 50000 >>

IsSorted(l) == \A i \in 1..(Len(l) - 1) : l[i] <= l[i + 1]

\* ascending non-empty position lists (equal positions allowed, as list.sort() leaves them)
SortedLists ==
    { l \in UNION { [1..n -> 0..MaxPos] : n \in 1..MaxLen } : IsSorted(l) }

\* per-site rates; 5/4 is outside the distribution's domain
Rates == { Ratio(1, 4), Ratio(1, 2), Ratio(3, 4), Ratio(1, 1), Ratio(5, 4) }

Thresholds == { Ratio(1, 4), Ratio(1, 2), Ratio(7, 8), Ratio(69, 70) }

EmptyCache == [key \in {} |-> NaN]

Idle ==
    /\ df_mutations = << >>
    /\ df_original = << >>
    /\ genome_size = 0
    /\ min_cluster_mutations = 0
    /\ df_found = << >>
    /\ df_clusters = << >>
    /\ calls = 0

----------------------------------------------------------------------------
(* The partitioner applied to a drawn list: specification SpecPartition *)

InitPartition ==
    /\ pc = "start"
    /\ mutation_list \in SortedLists \cup { ScenarioA }
    /\ max_distance_between_mutations \in (0..MaxDist) \cup { DefaultMaxDistance }
    /\ per_site_probability = NaN
    /\ min_p_value = NaN
    /\ potential_clusters = << >>
    /\ significant_clusters = << >>
    /\ cluster_probabilities = << >>
    /\ cache = EmptyCache
    /\ Idle

Partition ==
    /\ pc = "start"
    /\ potential_clusters' =
           findPotentialClusteredMutations(mutation_list, max_distance_between_mutations)
    /\ pc' = "partitioned"
    /\ UNCHANGED << df_mutations, df_original, genome_size, min_cluster_mutations,
                    min_p_value, max_distance_between_mutations, per_site_probability,
                    mutation_list, significant_clusters, cluster_probabilities,
                    df_found, df_clusters, cache, calls >>

SpecPartition == InitPartition /\ [][Partition]_vars

----------------------------------------------------------------------------
(* Partition, then score and select, on a drawn list: specification SpecRun *)

InitRun ==
    /\ pc = "start"
    /\ mutation_list \in SortedLists
    /\ max_distance_between_mutations \in 0..MaxDist
    /\ per_site_probability \in Rates
    /\ min_p_value \in Thresholds
    /\ potential_clusters = << >>
    /\ significant_clusters = << >>
    /\ cluster_probabilities = << >>
    /\ cache = EmptyCache
    /\ Idle

Select ==
    /\ pc = "partitioned"
    /\ cluster_probabilities' =
           [r \in DOMAIN potential_clusters |->
               computeClusterSignificanceOfAllMutationPairs(
                   cache, potential_clusters[r], per_site_probability)]
    /\ significant_clusters' =
           find_largest_significant_clusters(
               cache, potential_clusters, per_site_probability, min_p_value)
    /\ cache' = CacheAfter(cache, ProbabilityCalls(potential_clusters, per_site_probability))
    /\ pc' = "selected"
    /\ UNCHANGED << df_mutations, df_original, genome_size, min_cluster_mutations,
                    min_p_value, max_distance_between_mutations, per_site_probability,
                    mutation_list, potential_clusters, df_found, df_clusters, calls >>

NextRun == Partition \/ Select

SpecRun == InitRun /\ [][NextRun]_vars

----------------------------------------------------------------------------
(* Claims about the partitioner *)

\* C1: every returned run has adjacent gaps <= max_distance and length >= 2, and the
\* last position of a run and the first of the next run differ by more than max_distance
C1_RunsWithinDistance ==
    pc = "partitioned" =>
        /\ \A r \in DOMAIN potential_clusters :
              /\ Len(potential_clusters[r]) >= 2
              /\ \A i \in 1..(Len(potential_clusters[r]) - 1) :
                    potential_clusters[r][i + 1] - potential_clusters[r][i]
                        <= max_distance_between_mutations
        /\ \A r \in 1..(Len(potential_clusters) - 1) :
              potential_clusters[r + 1][1]
                  - potential_clusters[r][Len(potential_clusters[r])]
                      > max_distance_between_mutations

C1_Witness ==
    /\ pc = "partitioned"
    /\ Len(potential_clusters) >= 2
    /\ max_distance_between_mutations > 0

\* position i of ml has no neighbour within distance d
Isolated(ml, d, i) ==
    /\ i = 1 \/ ml[i] - ml[i - 1] > d
    /\ i = Len(ml) \/ ml[i + 1] - ml[i] > d

RECURSIVE DropIsolated(_, _, _)
DropIsolated(ml, d, i) ==
    IF i > Len(ml) THEN << >>
    ELSE (IF Isolated(ml, d, i) THEN << >> ELSE << ml[i] >>) \o DropIsolated(ml, d, i + 1)

\* C2: the runs, concatenated, are the input without its isolated positions; a singleton
\* gives no run, gaps all within the distance give one run holding everything, and
\* Scenario A gives the single run [100, 200, 9000, 9500]
C2_RunsMaximalComplete ==
    pc = "partitioned" =>
        /\ Flatten(potential_clusters)
               = DropIsolated(mutation_list, max_distance_between_mutations, 1)
        /\ Len(mutation_list) = 1 => potential_clusters = << >>
        /\ ( /\ Len(mutation_list) >= 2
             /\ \A i \in 1..(Len(mutation_list) - 1) :
                   mutation_list[i + 1] - mutation_list[i] <= max_distance_between_mutations )
               => potential_clusters = << mutation_list >>
        /\ ( /\ mutation_list = ScenarioA
             /\ max_distance_between_mutations = DefaultMaxDistance )
               => potential_clusters = << << 100, 200, 9000, 9500 >> >>

C2_Witness ==
    /\ pc = "partitioned"
    /\ mutation_list = ScenarioA
    /\ max_distance_between_mutations = DefaultMaxDistance
    /\ Len(potential_clusters) = 1

----------------------------------------------------------------------------
(* Claims about the scorer and the selector *)

\* the run a candidate or cluster was taken from: the one holding its start position
RunOf(runs, cluster) ==
    CHOOSE r \in DOMAIN runs : \E i \in DOMAIN runs[r] : runs[r][i] = cluster[1]

\* C3: a candidate's mutation_count is the number of elements of its run lying in
\* [start, end], counted here by index range in the sorted run, and is at least 2
C3_CountWithinSpan ==
    pc = "selected" =>
        \A r \in DOMAIN cluster_probabilities :
            \A t \in DOMAIN cluster_probabilities[r] :
                LET run == potential_clusters[r]
                    cand == cluster_probabilities[r][t]
                    inside == { x \in DOMAIN run : cand[1] <= run[x] /\ run[x] <= cand[2] }
                    lo == CHOOSE x \in inside : \A y \in inside : x <= y
                    hi == CHOOSE x \in inside : \A y \in inside : y <= x
                IN  /\ inside # {}
                    /\ cand[3] = hi - lo + 1
                    /\ cand[3] = Cardinality(inside)
                    /\ cand[3] >= 2

C3_Witness ==
    /\ pc = "selected"
    /\ \E r \in DOMAIN cluster_probabilities :
          \E t, u \in DOMAIN cluster_probabilities[r] :
              /\ cluster_probabilities[r][t][3] = 2
              /\ cluster_probabilities[r][u][3] > 2
              /\ cluster_probabilities[r][u][3] < Len(potential_clusters[r])

\* the place of the index pair (i, j), i < j, in the enumeration of a run of n positions
PairIndex(i, j, n) == (i - 1) * n - (i * (i - 1)) \div 2 + (j - i)

\* C13: for a run of n positions the scorer returns exactly n*(n-1)/2 candidates, one
\* per index pair i < j, ordered by i then j, with start = run[i], end = run[j] and
\* scored on the span run[j] - run[i]; none is left out whatever its p-value
C13_AllPairsInOrder ==
    pc = "selected" =>
        /\ DOMAIN cluster_probabilities = DOMAIN potential_clusters
        /\ \A r \in DOMAIN potential_clusters :
              LET run == potential_clusters[r]
                  n == Len(run)
                  cp == cluster_probabilities[r]
              IN  /\ 2 * Len(cp) = n * (n - 1)
                  /\ \A i \in 1..n : \A j \in (i + 1)..n :
                        /\ PairIndex(i, j, n) \in DOMAIN cp
                        /\ cp[PairIndex(i, j, n)][1] = run[i]
                        /\ cp[PairIndex(i, j, n)][2] = run[j]
                        /\ cp[PairIndex(i, j, n)][4] =
                               nbinom_cdf(run[j] - run[i], cp[PairIndex(i, j, n)][3],
                                          per_site_probability)

\* a run of 4 positions, two of them equal, gives 6 candidates, some of them not
\* below the threshold
C13_Witness ==
    /\ pc = "selected"
    /\ \E r \in DOMAIN potential_clusters :
          /\ Len(potential_clusters[r]) = 4
          /\ Len(cluster_probabilities[r]) = 6
          /\ \E i \in 1..3 : potential_clusters[r][i] = potential_clusters[r][i + 1]
          /\ \E t \in DOMAIN cluster_probabilities[r] :
                ~Less(cluster_probabilities[r][t][4], min_p_value)
          /\ \E t \in DOMAIN cluster_probabilities[r] :
                Less(cluster_probabilities[r][t][4], min_p_value)

\* the candidates of run r that are below the threshold
Valid(r) ==
    { t \in DOMAIN cluster_probabilities[r] :
          Less(cluster_probabilities[r][t][4], min_p_value) }

SpanOf(cluster) == cluster[2] - cluster[1]

\* C4: no emitted cluster has p_value >= min_p_value, and the cluster emitted for a run
\* has the largest end - start among the run's candidates with p_value < min_p_value
C4_LongestBelowThreshold ==
    pc = "selected" =>
        \A s \in DOMAIN significant_clusters :
            LET cluster == significant_clusters[s]
                r == RunOf(potential_clusters, cluster)
            IN  /\ ~Leq(min_p_value, cluster[4])
                /\ Less(cluster[4], min_p_value)
                /\ \E t \in Valid(r) : cluster_probabilities[r][t] = cluster
                /\ \A t \in Valid(r) :
                      SpanOf(cluster_probabilities[r][t]) <= SpanOf(cluster)

\* a cluster is emitted although a longer candidate of its run sits exactly at the threshold
C4_Witness ==
    /\ pc = "selected"
    /\ \E s \in DOMAIN significant_clusters :
          LET cluster == significant_clusters[s]
              r == RunOf(potential_clusters, cluster)
          IN  \E t \in DOMAIN cluster_probabilities[r] :
                  /\ cluster_probabilities[r][t][4] = min_p_value
                  /\ SpanOf(cluster_probabilities[r][t]) > SpanOf(cluster)

\* C5: among the below-threshold candidates of maximal span the first enumerated is emitted
C5_FirstOnTies ==
    pc = "selected" =>
        \A s \in DOMAIN significant_clusters :
            LET cluster == significant_clusters[s]
                r == RunOf(potential_clusters, cluster)
                longest == { t \in Valid(r) :
                               \A u \in Valid(r) :
                                  SpanOf(cluster_probabilities[r][u])
                                      <= SpanOf(cluster_probabilities[r][t]) }
                first == CHOOSE t \in longest : \A u \in longest : t <= u
            IN  /\ longest # {}
                /\ cluster = cluster_probabilities[r][first]

\* two different candidates tie at the maximal span and the earlier one is emitted
C5_Witness ==
    /\ pc = "selected"
    /\ \E s \in DOMAIN significant_clusters :
          LET cluster == significant_clusters[s]
              r == RunOf(potential_clusters, cluster)
          IN  \E t, u \in Valid(r) :
                  /\ t < u
                  /\ cluster_probabilities[r][t] = cluster
                  /\ cluster_probabilities[r][u] # cluster
                  /\ SpanOf(cluster_probabilities[r][u]) = SpanOf(cluster)

----------------------------------------------------------------------------
(* main's loop over the thresholds for one drawn sample: specification Spec *)

\* largest number of records of a drawn sample
MaxRecords == 5
\* largest position of a drawn sample
MaxRegion == 2
\* largest number of records of a drawn sample with a float Region column
MaxFloatRecords == 3
\* number of calls of the pipeline followed
MaxCalls == 2

\* the records a sample is drawn from (positions in halves): any position on the
\* first chromosome, one position on the second, and a mitochondrial record, whose
\* position is never read
Records ==
    [Chromosome : { "chrI" }, Region : { 2 * x : x \in 0..MaxRegion }]
        \cup { [Chromosome |-> "chrII", Region |-> 0],
               [Chromosome |-> Mitochondrial, Region |-> 0] }

Frames(n) == UNION { [1..m -> Records] : m \in 0..n }

\* the frame with every Region value ending in .5
FloatFrame(df) ==
    [i \in DOMAIN df |-> [Chromosome |-> df[i].Chromosome, Region |-> df[i].Region + 1]]

Samples == Frames(MaxRecords) \cup { FloatFrame(df) : df \in Frames(MaxFloatRecords) }

\* the genome sizes, proximity windows, minimum counts and thresholds drawn
GenomeSizes == { 4, 8 }

WindowSizes == { 1 }

MinimumCounts == { 2, 3 }

SampleThresholds == { Ratio(1, 4), Ratio(7, 8) }

Init ==
    /\ pc = "main"
    /\ df_original \in Samples
    /\ df_mutations = df_original
    /\ genome_size \in GenomeSizes
    /\ min_cluster_mutations \in MinimumCounts
    /\ max_distance_between_mutations \in WindowSizes
    /\ min_p_value = NaN
    /\ per_site_probability = NaN
    /\ mutation_list = << >>
    /\ potential_clusters = << >>
    /\ significant_clusters = << >>
    /\ cluster_probabilities = << >>
    /\ df_found = << >>
    /\ df_clusters = << >>
    /\ cache = EmptyCache
    /\ calls = 0

\* one call of analyzeSampleForMutationClusters on the caller's frame
analyzeSampleForMutationClusters(df, size, min_p, d, min_mutations) ==
    LET p == PerSiteProbability(df, size)
        found == findSampleClusters(cache, df, p, min_p, d)
    IN  /\ per_site_probability' = p
        /\ df_found' = found
        /\ df_clusters' = reset_index(FilterMutations(found, min_mutations))
        /\ df_mutations' = FrameAfter(df)
        /\ cache' = CacheAfter(cache, SampleProbabilityCalls(df, p, d))

\* main, lines 35-44: the next threshold of the scan
Analyze ==
    /\ calls < MaxCalls
    /\ \E pval \in SampleThresholds :
          /\ min_p_value' = pval
          /\ analyzeSampleForMutationClusters(
                 df_mutations, genome_size, pval,
                 max_distance_between_mutations, min_cluster_mutations)
    /\ calls' = calls + 1
    /\ pc' = "returned"
    /\ UNCHANGED << df_original, genome_size, min_cluster_mutations,
                    max_distance_between_mutations, mutation_list, potential_clusters,
                    significant_clusters, cluster_probabilities >>

Next == Analyze

Spec == Init /\ [][Next]_vars

----------------------------------------------------------------------------
(* Claims about the driver *)

Returned == pc = "returned"

\* the rows of a table that carry a chromosome
RowsOf(table, chrom) == { i \in DOMAIN table : table[i].Chromosome = chrom }

\* the sorted integer positions of a chromosome in the sample as handed over
PositionsOf(chrom) ==
    Sort(LET rows == SelectSeq(df_original, LAMBDA rec : rec.Chromosome = chrom)
         IN  [i \in DOMAIN rows |-> rows[i].Region \div 2])

\* run of positions has a candidate below the threshold
HasSignificant(run) ==
    LET cp == computeClusterSignificanceOfAllMutationPairs(
                  EmptyCache, run, per_site_probability)
    IN  \E t \in DOMAIN cp : Less(cp[t][4], min_p_value)

\* C6: each proximity run contributes one row when one of its candidates is below the
\* threshold and none otherwise, so a chromosome has no more rows than runs
C6_OneRowPerRun ==
    Returned =>
        \A chrom \in Processed(df_original) :
            LET runs == findPotentialClusteredMutations(
                            PositionsOf(chrom), max_distance_between_mutations)
                rows == RowsOf(df_found, chrom)
            IN  /\ Cardinality(rows) <= Len(runs)
                /\ \A r \in DOMAIN runs :
                      Cardinality({ i \in rows :
                                      \E x \in DOMAIN runs[r] : runs[r][x] = df_found[i].Start })
                          = IF HasSignificant(runs[r]) THEN 1 ELSE 0

\* a chromosome with two runs of five records in all, one with a row and one without
C6_Witness ==
    /\ Returned
    /\ \E chrom \in Processed(df_original) :
          LET runs == findPotentialClusteredMutations(
                          PositionsOf(chrom), max_distance_between_mutations)
          IN  /\ Len(runs) = 2
              /\ Cardinality(RowsOf(df_found, chrom)) = 1
              /\ Len(runs[1]) + Len(runs[2]) = 5

\* the k-th row of table with at least m mutations
RECURSIVE KthQualifying(_, _, _, _)
KthQualifying(table, m, k, from) ==
    IF table[from].Mutations >= m
    THEN IF k = 1 THEN from ELSE KthQualifying(table, m, k - 1, from + 1)
    ELSE KthQualifying(table, m, k, from + 1)

\* C7: the returned table holds exactly the rows of findSampleClusters' table with
\* Mutations >= min_cluster_mutations, in their order, with the index 0..n-1
C7_FilterAndReindex ==
    Returned =>
        LET kept == { i \in DOMAIN df_found : df_found[i].Mutations >= min_cluster_mutations }
        IN  /\ Len(df_clusters) = Cardinality(kept)
            /\ \A k \in DOMAIN df_clusters :
                  LET i == KthQualifying(df_found, min_cluster_mutations, k, 1)
                  IN  /\ df_clusters[k].index = k - 1
                      /\ [df_clusters[k] EXCEPT !.index = 0] = [df_found[i] EXCEPT !.index = 0]

\* a row with 2 mutations is removed with min_cluster_mutations = 3, and a later row moves up
C7_Witness ==
    /\ Returned
    /\ min_cluster_mutations = 3
    /\ Len(df_found) = 2
    /\ df_found[1].Mutations = 2
    /\ Len(df_clusters) = 1
    /\ df_clusters[1].index = 0
    /\ df_clusters[1].Start = df_found[2].Start

\* C8: a sample without records gives a table without rows, the frame and the cache
\* untouched; a chromosome without two records within the window gives no row
C8_EmptyIsNoError ==
    Returned =>
        /\ df_original = << >> =>
              /\ df_found = << >>
              /\ df_clusters = << >>
              /\ cache = EmptyCache
              /\ df_mutations = << >>
        /\ \A chrom \in Processed(df_original) :
              LET l == PositionsOf(chrom)
              IN  (\A i \in 1..(Len(l) - 1) : l[i + 1] - l[i] > max_distance_between_mutations)
                     => /\ RowsOf(df_found, chrom) = {}
                        /\ RowsOf(df_clusters, chrom) = {}

\* the table is not empty, yet some processed chromosome has no qualifying run
C8_Witness ==
    /\ Returned
    /\ df_found # << >>
    /\ \E chrom \in Processed(df_original) :
          /\ Len(PositionsOf(chrom)) >= 2
          /\ RowsOf(df_found, chrom) = {}
          /\ \A i \in 1..(Len(PositionsOf(chrom)) - 1) :
                PositionsOf(chrom)[i + 1] - PositionsOf(chrom)[i]
                    > max_distance_between_mutations

C8_WitnessEmpty == Returned /\ df_original = << >> /\ calls = 2

\* the table of a first call in a fresh process on the sample as handed over
FreshTable ==
    reset_index(FilterMutations(
        findSampleClusters(EmptyCache, df_original,
                           PerSiteProbability(df_original, genome_size),
                           min_p_value, max_distance_between_mutations),
        min_cluster_mutations))

\* C9: whatever calls went before, whatever the cache holds and although the frame's
\* Region column was cast in place, a call returns the table of a first call
C9_RerunIdentical == Returned => df_clusters = FreshTable

\* a second call, on a frame the first call has cast, served from the cache
C9_Witness ==
    /\ Returned
    /\ calls = 2
    /\ df_mutations # df_original
    /\ cache # EmptyCache
    /\ Len(df_clusters) >= 1

----------------------------------------------------------------------------
(* findClusterProbability called directly: specification SpecProb *)

InitProb ==
    /\ pc = "start"
    /\ mutation_list = << >>
    /\ max_distance_between_mutations = 0
    /\ per_site_probability = NaN
    /\ min_p_value = NaN
    /\ potential_clusters = << >>
    /\ significant_clusters = << >>
    /\ cluster_probabilities = << >>
    /\ cache = EmptyCache
    /\ Idle

\* one call findClusterProbability(cluster_length, number_of_mutations, rate); the calls
\* followed share the number of mutations and the rate of the first
FindProbability ==
    /\ \E cluster_length \in 0..MaxPos, count \in 1..MaxLen, rate \in Rates :
          /\ \A key \in DOMAIN cache : key[2] = count /\ key[3] = rate
          /\ CacheKey(cluster_length, count, rate) \notin DOMAIN cache
          /\ cache' = CacheAfter(cache, { << cluster_length, count, rate >> })
    /\ pc' = "called"
    /\ UNCHANGED << df_mutations, df_original, genome_size, min_cluster_mutations,
                    min_p_value, max_distance_between_mutations, per_site_probability,
                    mutation_list, potential_clusters, significant_clusters,
                    cluster_probabilities, df_found, df_clusters, calls >>

SpecProb == InitProb /\ [][FindProbability]_vars

\* a rate in (0, 1]
ValidRate(p) == ~p.nan /\ 0 < p.num /\ p.num <= p.den

\* C10: for one number of mutations and one rate in (0, 1], the value for a span
\* length is at most the value for any larger span length
C10_MonotoneInLength ==
    \A a, b \in DOMAIN cache :
        (a[2] = b[2] /\ a[3] = b[3] /\ ValidRate(a[3]) /\ a[1] <= b[1])
            => Leq(cache[a], cache[b])

\* two span lengths with different values for the same count and rate
C10_Witness ==
    \E a, b \in DOMAIN cache :
        /\ a[2] = b[2]
        /\ a[3] = b[3]
        /\ a[1] < b[1]
        /\ Less(cache[a], cache[b])

----------------------------------------------------------------------------
(* One call with any arguments, on any frame: specification SpecCall *)

\* the mark of a Region value astype(int) cannot convert (NaN, or text that is no
\* number); Region values proper are never negative
Uncastable == -1

\* line 216 raises: the column is cast when the first chromosome is processed
CastRaises(df) ==
    /\ Processed(df) # {}
    /\ \E i \in DOMAIN df : df[i].Region = Uncastable

\* the frame with record i made unconvertible
Spoil(df, i) == [df EXCEPT ![i].Region = Uncastable]

CallSamples ==
    Frames(MaxRecords)
        \cup UNION { { Spoil(df, i) : i \in DOMAIN df } : df \in Frames(MaxFloatRecords) }

\* arguments inside and outside the interface of the specification
CallWindowSizes == { 0, 1 }

CallMinimumCounts == { 1, 3 }

CallThresholds == { Ratio(0, 1), Ratio(15, 16), Ratio(1, 1) }

CallGenomeSizes == { 6 }

InitCall ==
    /\ pc = "main"
    /\ df_original \in CallSamples
    /\ df_mutations = df_original
    /\ genome_size \in CallGenomeSizes
    /\ min_cluster_mutations \in CallMinimumCounts
    /\ max_distance_between_mutations \in CallWindowSizes
    /\ min_p_value = NaN
    /\ per_site_probability = NaN
    /\ mutation_list = << >>
    /\ potential_clusters = << >>
    /\ significant_clusters = << >>
    /\ cluster_probabilities = << >>
    /\ df_found = << >>
    /\ df_clusters = << >>
    /\ cache = EmptyCache
    /\ calls = 0

\* the call returns its table
CallReturns ==
    /\ calls = 0
    /\ ~CastRaises(df_mutations)
    /\ \E pval \in CallThresholds :
          /\ min_p_value' = pval
          /\ analyzeSampleForMutationClusters(
                 df_mutations, genome_size, pval,
                 max_distance_between_mutations, min_cluster_mutations)
    /\ calls' = calls + 1
    /\ pc' = "returned"
    /\ UNCHANGED << df_original, genome_size, min_cluster_mutations,
                    max_distance_between_mutations, mutation_list, potential_clusters,
                    significant_clusters, cluster_probabilities >>

\* the cast of line 216 raises in the first processed chromosome; nothing catches it,
\* so the call ends there and no table is returned
CallRaises ==
    /\ calls = 0
    /\ CastRaises(df_mutations)
    /\ \E pval \in CallThresholds : min_p_value' = pval
    /\ per_site_probability' = PerSiteProbability(df_mutations, genome_size)
    /\ calls' = calls + 1
    /\ pc' = "raised"
    /\ UNCHANGED << df_mutations, df_original, genome_size, min_cluster_mutations,
                    max_distance_between_mutations, mutation_list, potential_clusters,
                    significant_clusters, cluster_probabilities, df_found, df_clusters,
                    cache >>

NextCall == CallReturns \/ CallRaises

SpecCall == InitCall /\ [][NextCall]_vars

----------------------------------------------------------------------------
(* Claims about the arguments and about failures *)

\* the arguments are inside the interface of the specification
ValidParameters ==
    /\ max_distance_between_mutations > 0
    /\ Less(Ratio(0, 1), min_p_value)
    /\ Less(min_p_value, Ratio(1, 1))
    /\ min_cluster_mutations >= 2

\* C11: a call with max_distance <= 0, min_p_value outside (0,1) or
\* min_cluster_mutations < 2 is rejected before anything is computed, so a call
\* that returned a table had arguments inside the interface
C11_InvalidParameterRejected == pc = "returned" => ValidParameters

\* the chromosomes of the frame other than chrom, with the rows a call on their
\* records alone would give
RowsWithout(chrom) ==
    LET rest == SelectSeq(df_original, LAMBDA rec : rec.Chromosome # chrom)
    IN  findSampleClusters(EmptyCache, rest, per_site_probability, min_p_value,
                           max_distance_between_mutations)

\* C12: when the processing of one chromosome group fails (here: it holds a record
\* whose Region cannot be cast), the other groups are still processed and their
\* clusters are in the returned table
C12_ChromosomeIsolation ==
    (calls = 1 /\ ValidParameters) =>
        \A i \in DOMAIN df_original :
            (df_original[i].Region = Uncastable
               /\ df_original[i].Chromosome # Mitochondrial
               /\ \A j \in DOMAIN df_original :
                     df_original[j].Region = Uncastable
                         => df_original[j].Chromosome = df_original[i].Chromosome
               /\ RowsWithout(df_original[i].Chromosome) # << >>)
                => /\ pc = "returned"
                   /\ \A r \in DOMAIN RowsWithout(df_original[i].Chromosome) :
                         \E k \in DOMAIN df_found :
                             [df_found[k] EXCEPT !.index = 0]
                                 = [RowsWithout(df_original[i].Chromosome)[r]
                                        EXCEPT !.index = 0]

----------------------------------------------------------------------------
(* Claims about the rows of the driver's table *)

\* the proximity runs the driver hands to the scorer for a chromosome
RunsOf(chrom) ==
    findPotentialClusteredMutations(PositionsOf(chrom), max_distance_between_mutations)

\* C14: every proximity run handed to the scorer has strictly increasing positions, so
\* every emitted cluster has start < end and Length > 0, also for a sample holding
\* several records at one chromosome and position
C14_StrictlyIncreasingRuns ==
    Returned =>
        /\ \A chrom \in Processed(df_original) :
              \A r \in DOMAIN RunsOf(chrom) :
                  \A i \in 1..(Len(RunsOf(chrom)[r]) - 1) :
                      RunsOf(chrom)[r][i] < RunsOf(chrom)[r][i + 1]
        /\ \A k \in DOMAIN df_found :
              /\ df_found[k].Start < df_found[k].End
              /\ df_found[k].Length > 0

\* C15: in every row of findSampleClusters' table Start and End are positions of
\* records of the row's chromosome, Length = End - Start, Mutations is the number of
\* that chromosome's records with position in [Start, End], P_value is below
\* Cluster_P_value_Threshold, and the rate and threshold columns hold the arguments
C15_RowFields ==
    Returned =>
        \A k \in DOMAIN df_found :
            LET row == df_found[k]
                positions == PositionsOf(row.Chromosome)
            IN  /\ row.Chromosome \in Processed(df_original)
                /\ \E i \in DOMAIN positions : positions[i] = row.Start
                /\ \E i \in DOMAIN positions : positions[i] = row.End
                /\ row.Length = row.End - row.Start
                /\ row.Mutations =
                       Cardinality({ i \in DOMAIN positions :
                                       row.Start <= positions[i] /\ positions[i] <= row.End })
                /\ Less(row.P_value, row.Cluster_P_value_Threshold)
                /\ row.Per_site_mutation_probability = per_site_probability
                /\ row.Cluster_P_value_Threshold = min_p_value

\* a row spanning three records or more at different positions, while a record of
\* another chromosome lies inside the row's span and is not counted
C15_Witness ==
    /\ Returned
    /\ \E k \in DOMAIN df_found :
          /\ df_found[k].Mutations >= 3
          /\ df_found[k].Length > 0
          /\ df_found[k].Per_site_mutation_probability
                 # df_found[k].Cluster_P_value_Threshold
          /\ \E chrom \in Processed(df_original) \ { df_found[k].Chromosome } :
                \E i \in DOMAIN PositionsOf(chrom) :
                    /\ df_found[k].Start <= PositionsOf(chrom)[i]
                    /\ PositionsOf(chrom)[i] <= df_found[k].End

\* C16: during a call on a sample with positions >= 0 and genome_size > 0,
\* findClusterProbability is never invoked with number_of_mutations < 2, with a
\* negative cluster_length or with per_bp_mut_probability outside (0, 1]; the keys
\* of the cache are the argument triples of the invocations so far
C16_ProbabilityPreconditions ==
    (Returned /\ genome_size > 0
       /\ \A i \in DOMAIN df_original : df_original[i].Region >= 0) =>
        \A key \in DOMAIN cache :
            /\ key[1] >= 0
            /\ key[2] >= 2
            /\ ValidRate(key[3])

\* the number of the first record of the sample on a chromosome
FirstAppearance(chrom) ==
    CHOOSE i \in DOMAIN df_original :
        /\ df_original[i].Chromosome = chrom
        /\ \A j \in 1..(i - 1) : df_original[j].Chromosome # chrom

\* the rows one run of partition -> score -> select gives for a chromosome
PipelineRows(chrom) ==
    ClusterRows(chrom,
                find_largest_significant_clusters(
                    EmptyCache, RunsOf(chrom), per_site_probability, min_p_value),
                per_site_probability, min_p_value)

\* the rows of a table on a chromosome, in table order, labels set aside
TableRows(table, chrom) ==
    LET rows == SelectSeq(table, LAMBDA row : row.Chromosome = chrom)
    IN  [k \in DOMAIN rows |-> [rows[k] EXCEPT !.index = 0]]

\* C17: findSampleClusters gives no row for the mitochondrial identifier, gives every
\* other chromosome of the sample the rows of one run of its pipeline, and appends the
\* chromosomes in order of first appearance and a chromosome's rows by ascending Start
C17_ChromosomeOrder ==
    Returned =>
        /\ \A k \in DOMAIN df_found : df_found[k].Chromosome # Mitochondrial
        /\ \A chrom \in Processed(df_original) :
              TableRows(df_found, chrom) = PipelineRows(chrom)
        /\ \A k, l \in DOMAIN df_found :
              k < l =>
                  /\ FirstAppearance(df_found[k].Chromosome)
                         <= FirstAppearance(df_found[l].Chromosome)
                  /\ df_found[k].Chromosome = df_found[l].Chromosome
                         => df_found[k].Start < df_found[l].Start

\* rows of two chromosomes whose records are interleaved in a sample that also holds
\* a mitochondrial record
C17_Witness ==
    /\ Returned
    /\ \E i \in DOMAIN df_original : df_original[i].Chromosome = Mitochondrial
    /\ \E k, l \in DOMAIN df_found :
          /\ k < l
          /\ df_found[k].Chromosome # df_found[l].Chromosome
          /\ \E i, j \in DOMAIN df_original :
                /\ i < j
                /\ df_original[i].Chromosome = df_found[l].Chromosome
                /\ df_original[j].Chromosome = df_found[k].Chromosome

\* run of positions has a candidate below the threshold with at least m mutations
HasQualifying(run, m) ==
    LET cp == computeClusterSignificanceOfAllMutationPairs(
                  EmptyCache, run, per_site_probability)
    IN  \E t \in DOMAIN cp : Less(cp[t][4], min_p_value) /\ cp[t][3] >= m

\* C18: min_cluster_mutations is a requirement on significant clusters: a run with a
\* candidate of p_value < min_p_value and mutation_count >= min_cluster_mutations has a
\* row in the table analyzeSampleForMutationClusters returns
C18_MinimumIsSignificanceRequirement ==
    (Returned /\ ValidParameters) =>
        \A chrom \in Processed(df_original) :
            \A r \in DOMAIN RunsOf(chrom) :
                HasQualifying(RunsOf(chrom)[r], min_cluster_mutations)
                    => \E k \in DOMAIN df_clusters :
                           /\ df_clusters[k].Chromosome = chrom
                           /\ \E x \in DOMAIN RunsOf(chrom)[r] :
                                 RunsOf(chrom)[r][x] = df_clusters[k].Start

\* C20: the clusters findSampleClusters reports for one chromosome are disjoint
\* intervals: the End of an earlier row is smaller than the Start of a later row of
\* that chromosome by more than max_distance_between_mutations, and no position of
\* the chromosome is covered by two rows
C20_DisjointClusters ==
    Returned =>
        /\ \A k, l \in DOMAIN df_found :
              (k < l /\ df_found[k].Chromosome = df_found[l].Chromosome)
                  => df_found[l].Start - df_found[k].End > max_distance_between_mutations
        /\ \A chrom \in Processed(df_original) :
              \A i \in DOMAIN PositionsOf(chrom) :
                  Cardinality({ k \in RowsOf(df_found, chrom) :
                                  /\ df_found[k].Start <= PositionsOf(chrom)[i]
                                  /\ PositionsOf(chrom)[i] <= df_found[k].End }) <= 1

\* two rows of one chromosome
C20_Witness ==
    /\ Returned
    /\ \E k, l \in DOMAIN df_found :
          /\ k < l
          /\ df_found[k].Chromosome = df_found[l].Chromosome
          /\ df_found[l].Start - df_found[k].End = max_distance_between_mutations + 1

----------------------------------------------------------------------------
(* The selection under a scan of thresholds *)

\* the clusters selected for the runs of the state under another threshold
SelectedUnder(min_p) ==
    find_largest_significant_clusters(
        EmptyCache, potential_clusters, per_site_probability, min_p)

\* C19: for the same runs and rate and thresholds p1 <= p2, every run with a cluster
\* under p1 has one under p2, whose span is at least that of the cluster under p1
C19_MonotoneInThreshold ==
    pc = "selected" =>
        \A p2 \in Thresholds :
            Leq(min_p_value, p2) =>
                LET under == SelectedUnder(p2)
                IN  \A s \in DOMAIN significant_clusters :
                        \E s2 \in DOMAIN under :
                            /\ RunOf(potential_clusters, under[s2])
                                   = RunOf(potential_clusters, significant_clusters[s])
                            /\ SpanOf(under[s2]) >= SpanOf(significant_clusters[s])

\* under a larger threshold a run with a cluster gets a longer one
C19_Witness ==
    /\ pc = "selected"
    /\ \E p2 \in Thresholds :
          /\ Less(min_p_value, p2)
          /\ \E s \in DOMAIN significant_clusters :
                \E s2 \in DOMAIN SelectedUnder(p2) :
                    /\ RunOf(potential_clusters, SelectedUnder(p2)[s2])
                           = RunOf(potential_clusters, significant_clusters[s])
                    /\ SpanOf(SelectedUnder(p2)[s2]) > SpanOf(significant_clusters[s])

====
